---- MODULE Spec2Model ----
(***************************************************************************)
(* Fast-Agent test server (src/fast_agent/server.py): the two module-level *)
(* maps active_connections and message_history, the ConnectionManager      *)
(* operations on them, and websocket_endpoint, one coroutine per accepted  *)
(* WebSocket.  A step of the model is the code a coroutine runs between    *)
(* two suspension points (receive_json, asyncio.sleep); send_json is taken *)
(* to complete or raise without yielding to another coroutine, and to      *)
(* raise on a socket whose peer has closed it.  The variables trace,       *)
(* teardown and failure record what has happened and are read by the       *)
(* properties only.                                                        *)
(* Spec has two connections and the frames that end or share a session;    *)
(* RouterSpec has two connections and the frames answered at once, in      *)
(* every shape of their data; ClassifierSpec has one connection and the    *)
(* user_message contents that take the classification through its branches.*)
(***************************************************************************)
EXTENDS Integers, Sequences, FiniteSets, TLC

\* ---------------------------------------------------------------- bounds
MaxInbound == 2         \* frames the clients send, all sockets together

Handlers == {1, 2}      \* websocket_endpoint coroutines, one per accepted socket
\* the {client_id} path segment a client may pick; the route /ws/{client_id}
\* matches no empty segment, so line 75 is not reached from a request
PathIds == {"a", "b"}
None == "None"          \* Python's None
NoId == "-"             \* client_id of a coroutine that has not started

\* ---------------------------------------------------------------- strings
\* A Python str is a sequence of one-character strings.
Upper == <<"A","B","C","D","E","F","G","H","I","J","K","L","M",
           "N","O","P","Q","R","S","T","U","V","W","X","Y","Z">>
Lowercase == <<"a","b","c","d","e","f","g","h","i","j","k","l","m",
               "n","o","p","q","r","s","t","u","v","w","x","y","z">>
Whitespace == {" ", "\t", "\n"}

\* a content that is never lowercased
lower_skipped(s) == s

\* str.lower()
lower(s) ==
    [i \in 1..Len(s) |->
        IF \E k \in 1..26 : Upper[k] = s[i]
        THEN Lowercase[CHOOSE k \in 1..26 : Upper[k] = s[i]]
        ELSE s[i]]

\* the positions at which sub occurs in s
Occurs(sub, s) ==
    {i \in 1..(Len(s) - Len(sub) + 1) : SubSeq(s, i, i + Len(sub) - 1) = sub}

\* sub in s
In(sub, s) == Occurs(sub, s) # {}

Min(S) == CHOOSE x \in S : \A y \in S : x <= y

\* s.split(sep, 1)[1], for sep in s
AfterFirst(sep, s) == SubSeq(s, Min(Occurs(sep, s)) + Len(sep), Len(s))

\* str.strip()
strip(s) ==
    LET keep == {i \in 1..Len(s) : s[i] \notin Whitespace}
    IN  IF keep = {} THEN <<>>
        ELSE SubSeq(s, Min(keep), CHOOSE x \in keep : \A y \in keep : y <= x)

\* s.split(): the whitespace-delimited tokens; only the first one is used
HasToken(s) == \E i \in 1..Len(s) : s[i] \notin Whitespace
FirstToken(s) ==
    LET first == Min({i \in 1..Len(s) : s[i] \notin Whitespace})
        stops == {i \in first..Len(s) : s[i] \in Whitespace}
    IN  SubSeq(s, first, IF stops = {} THEN Len(s) ELSE Min(stops) - 1)

\* s.replace(sub, ""): every non-overlapping occurrence, left to right
RECURSIVE remove(_, _)
remove(sub, s) ==
    IF Len(s) < Len(sub) \/ Len(sub) = 0 THEN s
    ELSE IF SubSeq(s, 1, Len(sub)) = sub
         THEN remove(sub, SubSeq(s, Len(sub) + 1, Len(s)))
         ELSE <<s[1]>> \o remove(sub, Tail(s))

\* ---------------------------------------------------------------- literals
sWeather == <<"w","e","a","t","h","e","r">>
sCity == <<"c","i","t","y">>
sIn == <<"i","n">>
sCalculate == <<"c","a","l","c","u","l","a","t","e">>
sCalculator == <<"c","a","l","c","u","l","a","t","o","r">>
sNewYork == <<"N","e","w"," ","Y","o","r","k">>
sTwoPlusTwo == <<"2","+","2">>
Operators == {<<"+">>, <<"-">>, <<"*">>, <<"/">>, <<"=">>}
ExprOperators == {<<"+">>, <<"-">>, <<"*">>, <<"/">>}

\* ---------------------------------------------------------------- classifier
\* line 152
WeatherTrigger(c) == In(sWeather, c) /\ (In(sCity, c) \/ In(sIn, c))
\* line 179
CalculatorTrigger(c) ==
    In(sCalculate, c) \/ In(sCalculator, c) \/ \E op \in Operators : In(op, c)
\* lines 157-159: location_part.split()[0] raises IndexError on an empty split
LocationRaises(c) == In(sIn, c) /\ ~HasToken(strip(AfterFirst(sIn, c)))
\* lines 154-159, 171
Location(c) ==
    IF In(sIn, c) THEN FirstToken(strip(AfterFirst(sIn, c))) ELSE sNewYork
\* an extraction that does not look for an operator character first
Expression_ungated(c) ==
    LET parts == strip(remove(sCalculator, remove(sCalculate, remove(<<"=">>, c))))
    IN  IF parts # <<>> THEN parts ELSE sTwoPlusTwo

\* lines 181-188, 200
Expression(c) ==
    LET parts == strip(remove(sCalculator, remove(sCalculate, remove(<<"=">>, c))))
    IN  IF (\E op \in ExprOperators : In(op, c)) /\ parts # <<>>
        THEN parts ELSE sTwoPlusTwo

\* ---------------------------------------------------------------- messages
\* A JSON object is a record; an absent key is an absent field.
EmptyDict == [k \in {} |-> None]
\* dict.get(key, default)
Get(d, key, default) == IF key \in DOMAIN d THEN d[key] ELSE default

cHello == <<"h","e","l","l","o">>
cWeatherInParis == <<"W","e","a","t","h","e","r"," ","i","n"," ","P","a","r","i","s">>
cWeatherIn == <<"w","e","a","t","h","e","r"," ","i","n"," ">>
Contents == {cHello, cWeatherInParis, cWeatherIn}

\* the frames a client may send (every one a JSON object)
UserMessages ==
    {[type |-> "user_message", message_id |-> "m1", data |-> [content |-> c]] :
        c \in Contents}
Inbound ==
    UserMessages \cup
    { [type |-> "ping", data |-> [timestamp |-> "T"]],
      [type |-> "request_history"],
      [type |-> "frobnicate"],
      [message_id |-> "m1"] }

\* str(uuid.uuid4()): the n-th value drawn, all distinct
Uuid(n) == "uuid" \o ToString(n)

\* ---------------------------------------------------------------- state
VARIABLES
    active_connections,  \* client_id -> the WebSocket stored for it (line 35)
    message_history,     \* client_id -> list of messages (line 38)
    pc,                  \* where each websocket_endpoint coroutine is suspended
    client_id,           \* websocket_endpoint's client_id
    message,             \* websocket_endpoint's message, while it is processed
    closed,              \* the peer of the coroutine's WebSocket has closed it
    wire,                \* the frames send_json has put on each WebSocket
    uuids,               \* number of uuid4() values drawn
    inbound,             \* number of frames received, all coroutines together
    trace,               \* per coroutine: the frames it received and sent
    teardown,            \* per coroutine: what its disconnect call found
    failure              \* per coroutine: a fault or a closure has happened,
                         \* on any socket, since it took up its current frame

vars == <<active_connections, message_history, pc, client_id, message, closed,
          wire, uuids, inbound, trace, teardown, failure>>

\* The part of the state the ConnectionManager and the handler body thread
\* through one step; raised is an exception on its way to the except clauses.
World ==
    [ac |-> active_connections, mh |-> message_history, wire |-> wire,
     trace |-> trace, uuids |-> uuids, raised |-> FALSE]

Raise(w) == [w EXCEPT !.raised = TRUE]

\* ---------------------------------------------------------------- transport
\* A history_response holds the history list itself, not a copy (line 255):
\* in the model a reference to the list of that client_id.
ListRef(cid) == [ref |-> cid]
IsListRef(v) == DOMAIN v = {"ref"}

\* json.dumps(message) meets the list that holds message again: ValueError
Circular(w, msg) ==
    /\ msg.type = "history_response"
    /\ IsListRef(msg.data.history)
    /\ msg.data.history.ref \in DOMAIN w.mh
    /\ \E i \in 1..Len(w.mh[msg.data.history.ref]) :
            w.mh[msg.data.history.ref][i] = msg

\* the JSON text of message: a list reference is written out as the list
Json(w, msg) ==
    IF msg.type = "history_response" /\ IsListRef(msg.data.history)
    THEN [msg EXCEPT !.data.history = w.mh[msg.data.history.ref]]
    ELSE msg

\* WebSocket.send_json(message) on socket ws, called by coroutine h
send_json(w, h, ws, msg) ==
    IF Circular(w, msg) \/ closed[ws] THEN Raise(w)
    ELSE [w EXCEPT !.wire[ws] = Append(@, [by |-> h, msg |-> Json(w, msg)]),
                   !.trace[h] = Append(@, [dir |-> "out", msg |-> msg])]

\* ---------------------------------------------------------------- ConnectionManager
\* ConnectionManager.connect, after websocket.accept()
connect(w, ws, cid) ==
    [w EXCEPT !.ac = [k \in DOMAIN w.ac \cup {cid} |->
                        IF k = cid THEN ws ELSE w.ac[k]],
              !.mh = [k \in DOMAIN w.mh \cup {cid} |->
                        IF k = cid THEN <<>> ELSE w.mh[k]]]

\* del d[key], for key in d
Del(d, key) == [k \in DOMAIN d \ {key} |-> d[k]]

\* a disconnect that deletes without looking: KeyError on an absent key
disconnect_unguarded(w, cid) ==
    IF cid \in DOMAIN w.ac /\ cid \in DOMAIN w.mh
    THEN [w EXCEPT !.ac = Del(w.ac, cid), !.mh = Del(w.mh, cid)]
    ELSE Raise(w)

\* a disconnect that forgets the history map
disconnect_keeps_history(w, cid) ==
    IF cid \in DOMAIN w.ac THEN [w EXCEPT !.ac = Del(w.ac, cid)] ELSE w

\* a disconnect that forgets the connection map
disconnect_keeps_connection(w, cid) ==
    IF cid \in DOMAIN w.mh THEN [w EXCEPT !.mh = Del(w.mh, cid)] ELSE w

\* ConnectionManager.disconnect
disconnect(w, cid) ==
    LET w1 == IF cid \in DOMAIN w.ac THEN [w EXCEPT !.ac = Del(w.ac, cid)] ELSE w
    IN  IF cid \in DOMAIN w1.mh THEN [w1 EXCEPT !.mh = Del(w1.mh, cid)] ELSE w1

\* ConnectionManager.send_message; a call reached after an exception was
\* raised is not executed
send_message(w, h, cid, msg) ==
    IF w.raised THEN w
    ELSE IF cid \in DOMAIN w.ac
         THEN IF cid \in DOMAIN w.mh
              THEN send_json([w EXCEPT !.mh[cid] = Append(@, msg)],
                             h, w.ac[cid], msg)
              ELSE Raise(w)
         ELSE w

\* ---------------------------------------------------------------- websocket_endpoint
\* {message_type} in the f-string of line 266: a str is written as it is,
\* and None, which the model holds as its text, as "None"
PyStr(v) == v

\* a greeting that does not carry the identifier
ConnectionEstablished_anonymous(cid) ==
    [type |-> "connection_established",
     data |-> [client_id |-> None,
               server_info |-> [name |-> "Fast-Agent Test Server",
                                version |-> "0.1.0"]]]

\* lines 82-94
ConnectionEstablished(cid) ==
    [type |-> "connection_established",
     data |-> [client_id |-> cid,
               server_info |-> [name |-> "Fast-Agent Test Server",
                                version |-> "0.1.0"]]]

\* lines 141-144 and 223-226
Thinking(type, msg) ==
    [type |-> type, data |-> [message_id |-> Get(msg, "message_id", None)]]

\* lines 161-177
WeatherRequest(w, msg, content_lower) ==
    [type |-> "tool_request", messageId |-> Uuid(w.uuids + 1),
     data |-> [tool |-> [id |-> "weather_tool", name |-> "GetWeather",
                         arguments |-> [location |-> Location(content_lower)],
                         message_id |-> Get(msg, "message_id", None)]]]

\* lines 190-206
CalculatorRequest(w, msg, content_lower) ==
    [type |-> "tool_request", messageId |-> Uuid(w.uuids + 1),
     data |-> [tool |-> [id |-> "calculator_tool", name |-> "Calculate",
                         arguments |-> [expression |-> Expression(content_lower)],
                         message_id |-> Get(msg, "message_id", None)]]]

\* lines 210-220
Echo(w, msg, user_content) ==
    [type |-> "assistant_message",
     data |-> [content |-> <<"You said: ">> \o user_content \o
                  <<"\n\nTip: Try asking about weather in a city or to calculate something!">>,
               message_id |-> Uuid(w.uuids + 1),
               in_response_to |-> Get(msg, "message_id", None)]]

\* lines 233-246
ToolAnswer(w, tool_data) ==
    [type |-> "assistant_message",
     data |-> [content |-> <<"I used the ", Get(tool_data, "name", "Tool"),
                             " tool and got: ",
                             Get(tool_data, "result", "No result")>>,
               message_id |-> Uuid(w.uuids + 1)]]

\* lines 261-270
UnknownType(message_type) ==
    [type |-> "error",
     data |-> [error |-> "Unknown message type: " \o PyStr(message_type),
               code |-> "UNKNOWN_MESSAGE_TYPE"]]

DrawUuid(w) == [w EXCEPT !.uuids = @ + 1]

\* lines 106-270 for every type but user_message, which suspends at line 138
Dispatch(w, h, cid, msg) ==
    LET message_type == Get(msg, "type", None)
        data == Get(msg, "data", EmptyDict)
    IN  CASE message_type = "ping" ->
                send_message(w, h, cid,
                    [type |-> "pong",
                     data |-> [timestamp |-> Get(data, "timestamp", None)]])
          [] message_type = "initialize" ->
                send_message(w, h, cid,
                    [type |-> "initialized",
                     data |-> [capabilities |-> <<"text_generation",
                                   "image_analysis", "code_completion">>]])
          [] message_type = "user_message" -> w
          [] message_type = "tool_response" ->
                LET tool_data == Get(data, "tool", EmptyDict)
                IN  IF DOMAIN tool_data # {}
                    THEN send_message(DrawUuid(w), h, cid, ToolAnswer(w, tool_data))
                    ELSE w
          [] message_type = "request_history" ->
                IF cid \in DOMAIN w.mh
                THEN send_message(w, h, cid,
                        [type |-> "history_response",
                         data |-> [history |-> ListRef(cid)]])
                ELSE w
          [] OTHER -> send_message(w, h, cid, UnknownType(message_type))

\* lines 149-226: the code that runs after the second delay
Respond(w, h, cid, msg) ==
    LET user_content == Get(Get(msg, "data", EmptyDict), "content", <<>>)
        content_lower == lower(user_content)
        w1 == IF WeatherTrigger(content_lower)
              THEN IF LocationRaises(content_lower) THEN Raise(w)
                   ELSE send_message(DrawUuid(w), h, cid,
                                     WeatherRequest(w, msg, content_lower))
              ELSE IF CalculatorTrigger(content_lower)
              THEN send_message(DrawUuid(w), h, cid,
                                CalculatorRequest(w, msg, content_lower))
              ELSE send_message(DrawUuid(w), h, cid, Echo(w, msg, user_content))
    IN  send_message(w1, h, cid, Thinking("thinking_complete", msg))

\* the new values of the variables a World holds
Commit(w) ==
    /\ active_connections' = w.ac
    /\ message_history' = w.mh
    /\ wire' = w.wire
    /\ trace' = w.trace
    /\ uuids' = w.uuids

\* a fault or a closure happens while the coroutines in a delay are at work;
\* h is the coroutine that ends with it, if one does
Disturb(h) ==
    [x \in Handlers |-> x # h /\ (failure[x] \/ pc[x] \in {"sleep1", "sleep2"})]

\* lines 272-276: either except clause
Except(w, h) ==
    /\ Commit(disconnect(w, client_id[h]))
    /\ pc' = [pc EXCEPT ![h] = "done"]
    /\ message' = [message EXCEPT ![h] = EmptyDict]
    /\ teardown' = [teardown EXCEPT ![h] =
            IF client_id[h] \in DOMAIN w.ac THEN "removed" ELSE "absent"]

\* the coroutine goes on to its next suspension point, unless an exception
\* was raised on the way; begins says that it has just taken up a new frame
Suspend(w, h, at, msg, begins) ==
    IF w.raised
    THEN /\ Except(w, h)
         /\ failure' = Disturb(h)
    ELSE /\ Commit(w)
         /\ pc' = [pc EXCEPT ![h] = at]
         /\ message' = [message EXCEPT ![h] = msg]
         /\ failure' = IF begins THEN [failure EXCEPT ![h] = FALSE] ELSE failure
         /\ UNCHANGED teardown

\* lines 74-94: a client opens /ws/{path_id}
Connect(h, path_id) ==
    /\ pc[h] = "start"
    /\ LET cid == IF path_id = "" THEN Uuid(uuids + 1) ELSE path_id
           w0 == IF path_id = "" THEN DrawUuid(World) ELSE World
           w1 == connect(w0, h, cid)
           w2 == send_message(w1, h, cid, ConnectionEstablished(cid))
       IN  /\ client_id' = [client_id EXCEPT ![h] = cid]
           /\ IF w2.raised
              THEN /\ Commit(disconnect(w2, cid))
                   /\ pc' = [pc EXCEPT ![h] = "done"]
                   /\ teardown' = [teardown EXCEPT ![h] = "removed"]
                   /\ failure' = Disturb(h)
                   /\ UNCHANGED message
              ELSE Suspend(w2, h, "receive_json", EmptyDict, FALSE)
    /\ UNCHANGED <<closed, inbound>>

\* lines 99-135 and the branches that do not suspend: a frame arrives
Receive(h, msg) ==
    /\ pc[h] = "receive_json"
    /\ ~closed[h]
    /\ inbound < MaxInbound
    /\ inbound' = inbound + 1
    /\ LET cid == client_id[h]
           w0 == [World EXCEPT !.trace[h] = Append(@, [dir |-> "in", msg |-> msg])]
           w1 == IF cid \in DOMAIN w0.mh
                 THEN [w0 EXCEPT !.mh[cid] = Append(@, msg)] ELSE w0
           w2 == Dispatch(w1, h, cid, msg)
       IN  IF Get(msg, "type", None) = "user_message"
           THEN Suspend(w2, h, "sleep1", msg, TRUE)
           ELSE Suspend(w2, h, "receive_json", EmptyDict, TRUE)
    /\ UNCHANGED <<client_id, closed>>

\* line 99 raises WebSocketDisconnect: the peer has closed the socket
ReceiveDisconnect(h) ==
    /\ pc[h] = "receive_json"
    /\ closed[h]
    /\ Except(World, h)
    /\ failure' = [failure EXCEPT ![h] = FALSE]
    /\ UNCHANGED <<client_id, closed, inbound>>

\* line 99 or 100 raises another exception: the frame is not JSON text, or
\* not a JSON object
ReceiveInvalid(h) ==
    /\ pc[h] = "receive_json"
    /\ ~closed[h]
    /\ inbound < MaxInbound
    /\ inbound' = inbound + 1
    /\ Except(World, h)
    /\ failure' = Disturb(h)
    /\ UNCHANGED <<client_id, closed>>

\* lines 138-144: the first delay is over
Wake1(h) ==
    /\ pc[h] = "sleep1"
    /\ Suspend(send_message(World, h, client_id[h],
                            Thinking("thinking_started", message[h])),
               h, "sleep2", message[h], FALSE)
    /\ UNCHANGED <<client_id, closed, inbound>>

\* lines 147-226: the second delay is over
Wake2(h) ==
    /\ pc[h] = "sleep2"
    /\ Suspend(Respond(World, h, client_id[h], message[h]),
               h, "receive_json", EmptyDict, FALSE)
    /\ UNCHANGED <<client_id, closed, inbound>>

\* the peer closes the socket of coroutine h
ClientClose(h) ==
    /\ pc[h] \in {"receive_json", "sleep1", "sleep2"}
    /\ ~closed[h]
    /\ closed' = [closed EXCEPT ![h] = TRUE]
    /\ failure' = [x \in Handlers |-> failure[x] \/ pc[x] \in {"sleep1", "sleep2"}]
    /\ UNCHANGED <<active_connections, message_history, pc, client_id, message,
                   wire, uuids, inbound, trace, teardown>>

Init ==
    /\ active_connections = EmptyDict
    /\ message_history = EmptyDict
    /\ pc = [h \in Handlers |-> "start"]
    /\ client_id = [h \in Handlers |-> NoId]
    /\ message = [h \in Handlers |-> EmptyDict]
    /\ closed = [h \in Handlers |-> FALSE]
    /\ wire = [h \in Handlers |-> <<>>]
    /\ uuids = 0
    /\ inbound = 0
    /\ trace = [h \in Handlers |-> <<>>]
    /\ teardown = [h \in Handlers |-> "-"]
    /\ failure = [h \in Handlers |-> FALSE]

Next ==
    \/ \E h \in Handlers, path_id \in PathIds : Connect(h, path_id)
    \/ \E h \in Handlers, msg \in Inbound : Receive(h, msg)
    \/ \E h \in Handlers : ReceiveDisconnect(h)
    \/ \E h \in Handlers : ReceiveInvalid(h)
    \/ \E h \in Handlers : Wake1(h)
    \/ \E h \in Handlers : Wake2(h)
    \/ \E h \in Handlers : ClientClose(h)

Spec == Init /\ [][Next]_vars

\* ---------------------------------------------------------------- the router alone
\* The frames of the branches that answer at once (lines 109-130, 228-246),
\* in every shape of their data: the timestamp present with one value or
\* another, given as null, absent, and the data absent; the tool data
\* present, partly present, empty, absent, and the data absent.
Pings ==
    { [type |-> "ping", data |-> [timestamp |-> "T1"]],
      [type |-> "ping", data |-> [timestamp |-> "T2"]],
      [type |-> "ping", data |-> [timestamp |-> None]],
      [type |-> "ping", data |-> [sent |-> "T1"]],
      [type |-> "ping"] }
ToolResponses ==
    { [type |-> "tool_response",
       data |-> [tool |-> [name |-> "Calculate", result |-> "4"]]],
      [type |-> "tool_response",
       data |-> [tool |-> [name |-> "GetWeather", result |-> "sunny"]]],
      [type |-> "tool_response", data |-> [tool |-> [name |-> "Calculate"]]],
      [type |-> "tool_response", data |-> [tool |-> EmptyDict]],
      [type |-> "tool_response", data |-> [status |-> "ok"]],
      [type |-> "tool_response"] }
RouterInbound == Pings \cup ToolResponses \cup {[type |-> "initialize"]}

RouterNext ==
    \/ \E h \in Handlers, path_id \in PathIds : Connect(h, path_id)
    \/ \E h \in Handlers, msg \in RouterInbound : Receive(h, msg)
    \/ \E h \in Handlers : ReceiveDisconnect(h)
    \/ \E h \in Handlers : ClientClose(h)

RouterSpec == Init /\ [][RouterNext]_vars

\* ---------------------------------------------------------------- the classifier alone
\* One connection that sends user_message frames whose contents take the
\* classification of lines 149-220 through each of its branches.
cWhatsTheWeatherInParis ==
    <<"W","h","a","t","'","s"," ","t","h","e"," ","w","e","a","t","h","e","r"," ","i","n"," ","P","a","r","i","s","?">>
cCalculateSum ==
    <<"c","a","l","c","u","l","a","t","e"," ","2","+","2">>
cWeatherCity ==
    <<"w","e","a","t","h","e","r"," ","c","i","t","y">>
cRainyWeather ==
    <<"r","a","i","n","y"," ","w","e","a","t","h","e","r">>
cCalculateFive ==
    <<"c","a","l","c","u","l","a","t","e"," ","5">>
cCalculatorSum ==
    <<"c","a","l","c","u","l","a","t","o","r"," ","2","+","2">>
cProductEquals ==
    <<"3","*","4","=">>
cEquals ==
    <<"=">>
cCalculate ==
    <<"C","a","l","c","u","l","a","t","e">>
cSplitCalculate ==
    <<"c","a","l","c","u","=","l","a","t","e"," ","1","+","1">>
ClassifierContents ==
    Contents \cup {cWhatsTheWeatherInParis, cCalculateSum, cWeatherCity, cRainyWeather, cCalculateFive,
                   cCalculatorSum, cProductEquals, cEquals, cCalculate,
                   cSplitCalculate}
ClassifierInbound ==
    {[type |-> "user_message", message_id |-> id, data |-> [content |-> c]] :
        id \in {"m1", "m2"}, c \in ClassifierContents}
    \cup {[type |-> "user_message", data |-> [content |-> cCalculateSum]],
          [type |-> "user_message", message_id |-> "m1"]}

ClassifierNext ==
    \/ \E path_id \in PathIds : Connect(1, path_id)
    \/ \E msg \in ClassifierInbound : Receive(1, msg)
    \/ Wake1(1)
    \/ Wake2(1)
    \/ ReceiveDisconnect(1)
    \/ ClientClose(1)

ClassifierSpec == Init /\ [][ClassifierNext]_vars

\* ---------------------------------------------------------------- properties
\* a coroutine between its connect and its disconnect
Connected(h) == pc[h] \in {"receive_json", "sleep1", "sleep2"}
TypeOf(m) == Get(m, "type", None)
Max(S) == CHOOSE x \in S : \A y \in S : y <= x
\* the positions in trace[h] of the frames coroutine h received
Ins(h) == {i \in 1..Len(trace[h]) : trace[h][i].dir = "in"}
\* the inbound frame coroutine h received last
LastIn(h) == trace[h][Max(Ins(h))].msg
\* the types of the events coroutine h has emitted since that frame
Since(h) ==
    [i \in 1..(Len(trace[h]) - Max(Ins(h))) |-> trace[h][Max(Ins(h)) + i].msg.type]
\* coroutine h has processed a user_message to the end without an exception
Processed(h) ==
    /\ pc[h] = "receive_json"
    /\ Ins(h) # {}
    /\ TypeOf(LastIn(h)) = "user_message"
Lifecycle == {"thinking_started", "tool_request", "assistant_message", "thinking_complete"}
\* no identifier is used by two coroutines
Unshared ==
    \A h1, h2 \in Handlers :
        h1 # h2 /\ client_id[h1] # NoId => client_id[h1] # client_id[h2]

\* C1: a user_message processed without fault has emitted exactly
\* thinking_started, then one tool_request or assistant_message, then
\* thinking_complete; and on a socket no lifecycle event of another
\* user_message comes between a thinking_started and its thinking_complete.
C1_LifecycleSequence ==
    /\ \A h \in Handlers :
          Processed(h) =>
             Since(h) \in {<<"thinking_started", "tool_request", "thinking_complete">>,
                           <<"thinking_started", "assistant_message", "thinking_complete">>}
    /\ \A ws \in Handlers : \A i, j, k \in 1..Len(wire[ws]) :
          ( /\ i < j /\ j < k
            /\ wire[ws][i].msg.type = "thinking_started"
            /\ wire[ws][k].msg.type = "thinking_complete"
            /\ wire[ws][i].by = wire[ws][k].by
            /\ \A n \in (i+1)..(k-1) :
                  ~(wire[ws][n].by = wire[ws][i].by
                    /\ wire[ws][n].msg.type = "thinking_complete")
            /\ wire[ws][j].msg.type \in Lifecycle )
          => wire[ws][j].by = wire[ws][i].by

\* C1 where no identifier is shared (what remains of C1 without the defect of C9)
C1_Unshared == Unshared => C1_LifecycleSequence

\* C2: when a user_message has been processed and no fault and no closure
\* has happened meanwhile, a thinking_started emitted for it is followed by
\* exactly one thinking_complete with the same message_id.
C2_ThinkingCompletes ==
    \A h \in Handlers :
        (Processed(h) /\ ~failure[h]) =>
            \A i \in 1..Len(trace[h]) :
                (i > Max(Ins(h)) /\ trace[h][i].msg.type = "thinking_started") =>
                    Cardinality({j \in (i+1)..Len(trace[h]) :
                        /\ trace[h][j].msg.type = "thinking_complete"
                        /\ trace[h][j].msg.data.message_id =
                              trace[h][i].msg.data.message_id}) = 1

\* C2 where no identifier is shared
C2_Unshared == Unshared => C2_ThinkingCompletes

\* C3: the history of a connected session holds exactly the N frames it
\* received and the M events it emitted, in the order they happened.
C3_HistoryIsTrace ==
    \A h \in Handlers :
        Connected(h) =>
            /\ client_id[h] \in DOMAIN message_history
            /\ message_history[client_id[h]] =
                  [i \in 1..Len(trace[h]) |-> trace[h][i].msg]

\* C3 where no identifier is shared
C3_Unshared == Unshared => C3_HistoryIsTrace

\* the types the router handles (lines 109, 116, 132, 228, 248)
HandledTypes == {"ping", "initialize", "user_message", "tool_response", "request_history"}
\* in this step coroutine h receives a frame
Receives(h) ==
    /\ Len(trace'[h]) > Len(trace[h])
    /\ trace'[h][Len(trace[h]) + 1].dir = "in"
\* the frame it receives, and what it has added to its trace after it
Received(h) == trace'[h][Len(trace[h]) + 1].msg
Answer(h) == SubSeq(trace'[h], Len(trace[h]) + 2, Len(trace'[h]))
\* coroutine h has received a frame of an unknown type before
HadUnknown(h) == \E i \in Ins(h) : TypeOf(trace[h][i].msg) \notin HandledTypes

\* one step of the property below
UnknownTypeStep ==
       \A h \in Handlers :
          /\ (Receives(h) /\ TypeOf(Received(h)) \notin HandledTypes) =>
                /\ Answer(h) = <<[dir |-> "out",
                                  msg |-> UnknownType(TypeOf(Received(h)))]>>
                /\ pc'[h] = "receive_json"
                /\ client_id[h] \in DOMAIN active_connections'
                /\ client_id[h] \in DOMAIN message_history
                /\ client_id[h] \in DOMAIN message_history'
                /\ message_history'[client_id[h]] =
                      message_history[client_id[h]] \o
                         <<Received(h), UnknownType(TypeOf(Received(h)))>>
          /\ (Receives(h) /\ TypeOf(Received(h)) = "ping" /\ HadUnknown(h)) =>
                /\ Len(Answer(h)) = 1
                /\ Answer(h)[1].msg.type = "pong"

\* C4: a frame of an unhandled type, or with no type, is answered with exactly
\* one error event with code UNKNOWN_MESSAGE_TYPE that names the value; the
\* session stays connected with its history kept, and a later ping on the
\* session is answered with a pong.
C4_UnknownType == [][UnknownTypeStep]_vars

\* C4 where no identifier is shared
C4_Unshared == [][Unshared' => UnknownTypeStep]_vars

\* one step of the property below
HistorySnapshotStep ==
       \A h \in Handlers :
          ( /\ Receives(h)
            /\ TypeOf(Received(h)) = "request_history"
            /\ client_id[h] \in DOMAIN message_history
            /\ active_connections[client_id[h]] = h ) =>
                /\ Len(wire'[h]) = Len(wire[h]) + 1
                /\ wire'[h][Len(wire'[h])].msg =
                      [type |-> "history_response",
                       data |-> [history |->
                          Append(message_history[client_id[h]], Received(h))]]

\* C5: a request_history on a connected session puts on its socket a
\* history_response whose history is the session's history up to and with
\* the request_history frame.
C5_HistorySnapshot == [][HistorySnapshotStep]_vars

\* one step of the property below
TeardownStep ==
       \A h \in Handlers :
          /\ (pc[h] # "done" /\ pc'[h] = "done") =>
                /\ client_id'[h] \notin DOMAIN active_connections'
                /\ client_id'[h] \notin DOMAIN message_history'
          /\ pc[h] = "done" => (pc'[h] = "done" /\ trace'[h] = trace[h])

\* C6: when a coroutine ends, on a closure or on any fault, its identifier
\* has no entry in either map right after, and it processes nothing more.
C6_TeardownReleases == [][TeardownStep]_vars

\* a coroutine has ended on a fault in the middle of a user_message
C6_Witness ==
    \E h \in Handlers :
        /\ pc[h] = "done"
        /\ teardown[h] = "removed"
        /\ ~closed[h]
        /\ Ins(h) # {}
        /\ TypeOf(LastIn(h)) = "user_message"
        /\ Since(h) = <<"thinking_started">>

\* C7: disconnect(id) raises nothing, a second disconnect(id) changes nothing
\* more, a disconnect of an identifier without session changes nothing, and
\* the entries of the other identifiers stay as they are.
C7_DisconnectIdempotent ==
    \A cid \in PathIds :
        LET once == disconnect(World, cid)
            twice == disconnect(once, cid)
        IN  /\ ~once.raised /\ ~twice.raised
            /\ twice = once
            /\ (cid \notin DOMAIN active_connections
                  /\ cid \notin DOMAIN message_history) => once = World
            /\ cid \notin DOMAIN once.ac /\ cid \notin DOMAIN once.mh
            /\ \A other \in PathIds \ {cid} :
                  /\ other \in DOMAIN once.ac <=> other \in DOMAIN active_connections
                  /\ other \in DOMAIN once.mh <=> other \in DOMAIN message_history
                  /\ other \in DOMAIN active_connections =>
                        once.ac[other] = active_connections[other]
                  /\ other \in DOMAIN message_history =>
                        once.mh[other] = message_history[other]

\* disconnect has run twice for one identifier, the second time finding
\* nothing
C7_Witness ==
    \E h1, h2 \in Handlers :
        /\ client_id[h1] = client_id[h2]
        /\ teardown[h1] = "removed"
        /\ teardown[h2] = "absent"

\* C8: of two sessions connected at the same time, neither gets on its
\* socket an event the other's coroutine produced, and neither's history holds
\* a message the other received or emitted.
C8_Isolation ==
    \A h1, h2 \in Handlers :
        (h1 # h2 /\ Connected(h1) /\ Connected(h2)) =>
            /\ \A i \in 1..Len(wire[h2]) : wire[h2][i].by # h1
            /\ client_id[h2] \in DOMAIN message_history =>
                  \A i \in 1..Len(message_history[client_id[h2]]) :
                      \E j \in 1..Len(trace[h2]) :
                          trace[h2][j].msg = message_history[client_id[h2]][i]

\* C8 where no identifier is shared
C8_Unshared == Unshared => C8_Isolation

\* one step of the property below
UniqueIdentifierStep ==
       /\ \A h1, h2 \in Handlers :
            (h1 # h2 /\ Connected(h1)' /\ Connected(h2)') =>
                client_id'[h1] # client_id'[h2]
       /\ \A h, h2 \in Handlers :
            ( /\ h # h2
              /\ pc[h] = "start" /\ pc'[h] # "start"
              /\ Connected(h2) /\ client_id[h2] = client_id'[h]
              /\ client_id[h2] \in DOMAIN active_connections ) =>
                /\ active_connections'[client_id[h2]] =
                      active_connections[client_id[h2]]
                /\ message_history'[client_id[h2]] = message_history[client_id[h2]]
       /\ \A h, h2 \in Handlers :
            ( /\ h # h2
              /\ pc[h] # "done" /\ pc'[h] = "done"
              /\ Connected(h2)
              /\ client_id[h2] \in DOMAIN active_connections ) =>
                /\ client_id[h2] \in DOMAIN active_connections'
                /\ client_id[h2] \in DOMAIN message_history'

\* C9: no two connected sessions have one identifier; a connect with an
\* identifier that has a live session leaves that session's socket and
\* history in the maps; the end of one connection leaves the entries of the
\* identifier another connection uses.
C9_UniqueIdentifier == [][UniqueIdentifierStep]_vars

\* one step of the property below
CancellationStep ==
       \A h \in Handlers :
          closed[h] =>
             /\ trace'[h] = trace[h]
             /\ pc'[h] # pc[h] =>
                   /\ pc'[h] = "done"
                   /\ client_id[h] \notin DOMAIN active_connections'
                   /\ client_id[h] \notin DOMAIN message_history'

\* C10: once the socket of a coroutine has closed, the coroutine receives and
\* emits nothing more, so it adds nothing to a history, and the first step
\* it takes ends it and releases its state.
C10_Cancellation == [][CancellationStep]_vars

\* C10 where no identifier is shared
C10_Unshared == [][Unshared' => CancellationStep]_vars

\* one step of the property below
PingStep ==
       \A h \in Handlers :
          (Receives(h) /\ TypeOf(Received(h)) = "ping") =>
             LET ping == Received(h)
                 T == IF "data" \in DOMAIN ping /\ "timestamp" \in DOMAIN ping.data
                      THEN ping.data.timestamp ELSE None
                 pong == [type |-> "pong", data |-> [timestamp |-> T]]
             IN  /\ Answer(h) = <<[dir |-> "out", msg |-> pong]>>
                 /\ wire'[h] = Append(wire[h], [by |-> h, msg |-> pong])
                 /\ pc'[h] = "receive_json"
                 /\ client_id[h] \in DOMAIN active_connections'
                 /\ client_id[h] \in DOMAIN message_history'

\* C11: a ping is answered on its socket with exactly one pong whose
\* data.timestamp is the ping's timestamp as it came, and null when the ping
\* has no timestamp or no data; the session stays connected.
C11_PingPong == [][PingStep]_vars

\* C11 where no identifier is shared
C11_Unshared == [][Unshared' => PingStep]_vars

\* the entry at position k of trace[h] is a tool_request that follows, with
\* only its thinking_started between, a user_message coroutine h received,
\* and all three, and the thinking_complete after it, carry one message_id
Correlated(h, k) ==
    /\ k >= 3
    /\ trace[h][k - 2].dir = "in"
    /\ TypeOf(trace[h][k - 2].msg) = "user_message"
    /\ trace[h][k - 1] =
          [dir |-> "out",
           msg |-> [type |-> "thinking_started",
                    data |-> [message_id |-> trace[h][k].msg.data.tool.message_id]]]
    /\ trace[h][k].msg.data.tool.message_id =
          (IF "message_id" \in DOMAIN trace[h][k - 2].msg
           THEN trace[h][k - 2].msg.message_id ELSE None)
    /\ k < Len(trace[h]) =>
          trace[h][k + 1] =
             [dir |-> "out",
              msg |-> [type |-> "thinking_complete",
                       data |-> [message_id |-> trace[h][k].msg.data.tool.message_id]]]

\* C12: a tool_request on the socket of a session was emitted for exactly
\* one user_message that session received before, with the message_id of
\* that user_message in data.tool.message_id and in the thinking_started and
\* thinking_complete around it; its messageId differs from that message_id
\* and from the messageId of every other tool_request.
C12_ToolRequestCorrelates ==
    \A ws \in Handlers : \A i \in 1..Len(wire[ws]) :
        wire[ws][i].msg.type = "tool_request" =>
            /\ wire[ws][i].by = ws
            /\ Cardinality({k \in 1..Len(trace[ws]) :
                    /\ trace[ws][k] = [dir |-> "out", msg |-> wire[ws][i].msg]
                    /\ Correlated(ws, k)}) = 1
            /\ wire[ws][i].msg.messageId # wire[ws][i].msg.data.tool.message_id
            /\ \A ws2 \in Handlers : \A i2 \in 1..Len(wire[ws2]) :
                  ( /\ wire[ws2][i2].msg.type = "tool_request"
                    /\ <<ws2, i2>> # <<ws, i>> ) =>
                        wire[ws2][i2].msg.messageId # wire[ws][i].msg.messageId

\* C12 where no identifier is shared
C12_Unshared == Unshared => C12_ToolRequestCorrelates

\* in this step coroutine h ends the second delay of a user_message with
\* content c and emits an event for it
Classifies(h, c) ==
    /\ pc[h] = "sleep2"
    /\ Get(Get(message[h], "data", EmptyDict), "content", <<>>) = c
    /\ Len(trace'[h]) > Len(trace[h])
\* the first event it emits in the step
Classified(h) == trace'[h][Len(trace[h]) + 1].msg
\* it asks for the tool of that name with that one argument
Requests(ev, name, argument, value) ==
    /\ ev.type = "tool_request"
    /\ ev.data.tool.name = name
    /\ ev.data.tool.arguments = [a \in {argument} |-> value]
\* it is the plain echo of content c
Echoes(ev, c) ==
    /\ ev.type = "assistant_message"
    /\ ev.data.content = <<"You said: ">> \o c \o
          <<"\n\nTip: Try asking about weather in a city or to calculate something!">>

\* the parts of the classification the three contents have in common
SumAndHelloStep ==
    \A h \in Handlers :
        /\ Classifies(h, cCalculateSum) =>
              Requests(Classified(h), "Calculate", "expression", <<"2","+","2">>)
        /\ Classifies(h, cHello) =>
              /\ Echoes(Classified(h), cHello)
              /\ \A i \in 1..Len(Answer(h)) : Answer(h)[i].msg.type # "tool_request"

\* C13 as stated: "What's the weather in Paris?" asks GetWeather for location
\* "paris", "calculate 2+2" asks Calculate for expression "2+2", and "hello"
\* asks for no tool and is echoed in a plain assistant_message.
C13_Classification ==
    [][ /\ SumAndHelloStep
        /\ \A h \in Handlers :
              Classifies(h, cWhatsTheWeatherInParis) =>
                 Requests(Classified(h), "GetWeather", "location",
                          <<"p","a","r","i","s">>) ]_vars

\* C13 amended: the location asked for is "paris?", the first token after
\* "in" with the question mark that ends it; the rest as stated.
C13_ClassificationAmended ==
    [][ /\ SumAndHelloStep
        /\ \A h \in Handlers :
              Classifies(h, cWhatsTheWeatherInParis) =>
                 Requests(Classified(h), "GetWeather", "location",
                          <<"p","a","r","i","s","?">>) ]_vars

\* a connection received "What's the weather in Paris?" and emitted a
\* GetWeather tool_request for it
C13_Witness ==
    \E h \in Handlers : \E i, j \in 1..Len(trace[h]) :
        /\ i + 2 = j
        /\ trace[h][i].dir = "in"
        /\ Get(Get(trace[h][i].msg, "data", EmptyDict), "content", <<>>) =
              cWhatsTheWeatherInParis
        /\ trace[h][j].msg.type = "tool_request"
        /\ trace[h][j].msg.data.tool.name = "GetWeather"

\* m is the connection_established event of identifier cid
Greets(m, cid) ==
    /\ TypeOf(m) = "connection_established"
    /\ m.data.client_id = cid

\* C14: a coroutine that has connected emitted, before it received anything,
\* a connection_established with its client_id: the event is the first entry
\* of its trace, the first frame on its socket, and the first entry of the
\* history of its identifier.
C14_GreetingFirst ==
    \A h \in Handlers :
        Connected(h) =>
            /\ Len(trace[h]) >= 1
            /\ trace[h][1].dir = "out"
            /\ Greets(trace[h][1].msg, client_id[h])
            /\ Len(wire[h]) >= 1
            /\ wire[h][1] = [by |-> h, msg |-> trace[h][1].msg]
            /\ client_id[h] \in DOMAIN message_history =>
                  /\ Len(message_history[client_id[h]]) >= 1
                  /\ Greets(message_history[client_id[h]][1], client_id[h])

\* a connected coroutine has received a frame and answered it, and the
\* history of its identifier holds more than the greeting
C14_Witness ==
    \E h \in Handlers :
        /\ Connected(h)
        /\ Ins(h) # {}
        /\ Len(trace[h]) >= 3
        /\ client_id[h] \in DOMAIN message_history
        /\ Len(message_history[client_id[h]]) >= 3

\* s is a prefix of t
Prefix(s, t) == Len(s) <= Len(t) /\ SubSeq(t, 1, Len(s)) = s

\* one step of the property below
AppendOnlyStep ==
       \A h \in Handlers :
          (Connected(h) /\ Connected(h)') =>
             /\ client_id[h] \in DOMAIN message_history
             /\ client_id[h] \in DOMAIN message_history'
             /\ Prefix(message_history[client_id[h]],
                       message_history'[client_id[h]])

\* C15: from the connect of a session to its disconnect its history only
\* grows at the end: the history before a step is a prefix of the history
\* after it.
C15_AppendOnly == [][AppendOnlyStep]_vars

\* C15 where no identifier is shared
C15_Unshared == [][Unshared' => AppendOnlyStep]_vars

\* one step of the property below
InboundFirstStep ==
       \A h \in Handlers :
          (Receives(h) /\ pc'[h] # "done") =>
             /\ client_id[h] \in DOMAIN message_history
             /\ client_id[h] \in DOMAIN message_history'
             /\ message_history'[client_id[h]] =
                   message_history[client_id[h]] \o <<Received(h)>> \o
                      [i \in 1..Len(Answer(h)) |-> Answer(h)[i].msg]

\* C16: a frame a session receives is put at the end of its history as it
\* came, before the events emitted in answer to it, whatever its type and
\* also when nothing is emitted for it.
C16_InboundFirst == [][InboundFirstStep]_vars

\* C16 where no identifier is shared
C16_Unshared == [][Unshared' => InboundFirstStep]_vars

\* the frame carries tool data: a data object with a tool object that is
\* not empty
CarriesTool(m) ==
    /\ "data" \in DOMAIN m
    /\ "tool" \in DOMAIN m.data
    /\ DOMAIN m.data.tool # {}

\* one step of the property below
ToolResponseStep ==
       \A h \in Handlers :
          (Receives(h) /\ TypeOf(Received(h)) = "tool_response") =>
             /\ pc'[h] = "receive_json"
             /\ client_id[h] \in DOMAIN active_connections'
             /\ client_id[h] \in DOMAIN message_history
             /\ client_id[h] \in DOMAIN message_history'
             /\ IF CarriesTool(Received(h))
                THEN /\ Len(Answer(h)) = 1
                     /\ Answer(h)[1].msg.type = "assistant_message"
                     /\ wire'[h] = Append(wire[h], [by |-> h, msg |-> Answer(h)[1].msg])
                     /\ DOMAIN Received(h).data.tool = {"name", "result"} =>
                           Answer(h)[1].msg.data.content =
                              <<"I used the ", Received(h).data.tool.name,
                                " tool and got: ", Received(h).data.tool.result>>
                ELSE /\ Answer(h) = <<>>
                     /\ wire' = wire
                     /\ message_history'[client_id[h]] =
                           Append(message_history[client_id[h]], Received(h))

\* C17: a tool_response with tool data is answered on its socket with
\* exactly one assistant_message whose content is "I used the {name} tool and
\* got: {result}" with the name and result of the frame; one with no data,
\* no tool or an empty tool emits nothing and raises nothing, the session
\* stays connected and its history gains the frame only.
C17_ToolResponse == [][ToolResponseStep]_vars

\* C17 where no identifier is shared
C17_Unshared == [][Unshared' => ToolResponseStep]_vars

\* the lowercased content of the user_message coroutine h is processing
ContentLower(h) ==
    lower(Get(Get(message[h], "data", EmptyDict), "content", <<>>))
\* in this step coroutine h, its socket open, ends the second delay
Responds(h) == pc[h] = "sleep2" /\ pc'[h] # "sleep2" /\ ~closed[h]
\* something other than whitespace follows the first "in" of c
Usable(c) ==
    In(sIn, c) /\ (\E i \in 1..Len(AfterFirst(sIn, c)) :
                      AfterFirst(sIn, c)[i] \notin Whitespace)
\* the location the property below asks for
ExpectedLocation(c) ==
    IF Usable(c) THEN FirstToken(AfterFirst(sIn, c)) ELSE sNewYork

\* one step of the property below, for the contents in Cs
WeatherStep(Cs) ==
       \A h \in Handlers :
          (Responds(h) /\ ContentLower(h) \in Cs /\ WeatherTrigger(ContentLower(h))) =>
             /\ pc'[h] = "receive_json"
             /\ Len(trace'[h]) = Len(trace[h]) + 2
             /\ Requests(Classified(h), "GetWeather", "location",
                         ExpectedLocation(ContentLower(h)))

\* C18: a user_message that meets the weather trigger is answered with a
\* GetWeather tool_request whose location is the first token after the first
\* "in" of the lowercased content, and "New York" when there is no "in" or
\* only whitespace after it; the extraction never faults or ends the session.
C18_WeatherLocation ==
    [][WeatherStep({lower(c) : c \in ClassifierContents})]_vars

\* C18 for the contents in which a token follows "in", or that have no "in"
C18_WhereUsable ==
    [][WeatherStep({lower(c) : c \in ClassifierContents \ {cWeatherIn}})]_vars

\* c with "=" removed, then "calculate", then "calculator", and trimmed
Stripped(c) ==
    strip(remove(sCalculator, remove(sCalculate, remove(<<"=">>, c))))
\* c with "calculate" removed, then "calculator", then "=", and trimmed
StrippedAsListed(c) ==
    strip(remove(<<"=">>, remove(sCalculator, remove(sCalculate, c))))
\* c holds one of the characters + - * /
HasOperator(c) == \E i \in 1..Len(c) : c[i] \in {"+", "-", "*", "/"}

\* in this step coroutine h ends the second delay of a user_message that
\* meets the calculator trigger and not the weather trigger, and emits an
\* event for it
Calculates(h) ==
    /\ pc[h] = "sleep2"
    /\ Len(trace'[h]) > Len(trace[h])
    /\ ~WeatherTrigger(ContentLower(h))
    /\ CalculatorTrigger(ContentLower(h))

\* C19 as stated: the expression of the Calculate tool_request is the
\* lowercased content without "calculate", "calculator" and "=", trimmed, and
\* "2+2" only when nothing is left, whether or not the content holds one of
\* + - * /.
C19_Expression ==
    [][ \A h \in Handlers :
          Calculates(h) =>
             Requests(Classified(h), "Calculate", "expression",
                      IF StrippedAsListed(ContentLower(h)) = <<>>
                      THEN sTwoPlusTwo ELSE StrippedAsListed(ContentLower(h))) ]_vars

\* C19 amended: the expression is the lowercased content without "=", then
\* without "calculate", then without "calculator", trimmed, when the content
\* holds one of + - * / and something is left; it is "2+2" in every other
\* case.
C19_ExpressionAmended ==
    [][ \A h \in Handlers :
          Calculates(h) =>
             Requests(Classified(h), "Calculate", "expression",
                      IF HasOperator(ContentLower(h))
                         /\ Stripped(ContentLower(h)) # <<>>
                      THEN Stripped(ContentLower(h)) ELSE sTwoPlusTwo) ]_vars

\* "calculate 5", which holds no operator, was answered with a Calculate
\* tool_request for "2+2"
C19_Witness ==
    \E h \in Handlers : \E i \in 1..Len(trace[h]) :
        /\ i + 2 <= Len(trace[h])
        /\ trace[h][i].dir = "in"
        /\ Get(Get(trace[h][i].msg, "data", EmptyDict), "content", <<>>) =
              cCalculateFive
        /\ trace[h][i + 2].msg.type = "tool_request"
        /\ trace[h][i + 2].msg.data.tool.name = "Calculate"
        /\ trace[h][i + 2].msg.data.tool.arguments.expression = sTwoPlusTwo

\* C20: wherever control can pass from one coroutine to another, the
\* connection map and the history map hold the same identifiers: none has a
\* socket without a history or a history without a socket.
C20_SameIdentifiers ==
    DOMAIN active_connections = DOMAIN message_history

\* one identifier has a session and another, whose session has ended, has
\* been taken out of both maps
C20_Witness ==
    \E h1, h2 \in Handlers :
        /\ Connected(h1)
        /\ client_id[h1] \in DOMAIN active_connections
        /\ client_id[h1] \in DOMAIN message_history
        /\ pc[h2] = "done"
        /\ teardown[h2] = "removed"
        /\ client_id[h2] # client_id[h1]
        /\ client_id[h2] \notin DOMAIN active_connections
        /\ client_id[h2] \notin DOMAIN message_history

====
